---- MODULE Spec2Model ----
(***************************************************************************)
(* Model of the file previewer of television                               *)
(* (crates/television-previewers/src/previewers/files.rs): the preview()   *)
(* orchestrator, the background highlight task it spawns, and the shared   *)
(* preview cache behind its mutex.                                         *)
(***************************************************************************)
EXTENDS Integers, Sequences, FiniteSets, TLC

(***************************************************************************)
(* Bounds of the model.                                                    *)
(***************************************************************************)
\* number of distinct entry identifiers (entry.name) that are previewed
NumEntries == 2
\* number of contexts that try to call preview() on the one previewer
NumCallers == 2

\* entry identifiers; 0 stands for "no entry"
Entries == 1..NumEntries
Callers == 1..NumCallers

(***************************************************************************)
(* Program constants.                                                      *)
(***************************************************************************)
\* files.rs:230  const MAX_FILE_SIZE: u64 = 4 * 1024 * 1024
MAX_FILE_SIZE == 4 * 1024 * 1024
\* files.rs:253  let mut buffer = [0u8; 256]
SAMPLE_SIZE == 256

(***************************************************************************)
(* Values.                                                                 *)
(***************************************************************************)
\* PreviewContent variants the previewer can cache; Absent is a cache miss.
Absent == "Absent"
Loading == "Loading"
HighlightedText == "HighlightedText"
NotSupported == "NotSupported"
TooLarge == "TooLarge"
PreviewKinds == {Loading, HighlightedText, NotSupported, TooLarge}
Terminal == {HighlightedText, NotSupported, TooLarge}

\* io::Result / Option values
Ok(v) == [ok |-> TRUE, v |-> v]
Err == [ok |-> FALSE, v |-> 0]

\* FileType variants
Text == "Text"
Image == "Image"
Other == "Other"
Unknown == "Unknown"

(***************************************************************************)
(* The environment: what the file system and the libraries may answer.     *)
(***************************************************************************)
\* sizes get_file_size may report: empty, the 10-byte file, the ceiling,
\* one byte above it, and the 5 MiB file
FileSizes == {0, 10, MAX_FILE_SIZE, MAX_FILE_SIZE + 1, 5 * 1024 * 1024}
SizeResults == {Err} \cup {Ok(s) : s \in FileSizes}

\* A MIME type reported by infer is represented by the set of the words
\* "image" and "text" that it contains.
MimeTypes == SUBSET {"image", "text"}
\* infer::get_from_path: Err(_), Ok(None), Ok(Some(t))
SniffErr == [ok |-> FALSE, some |-> FALSE, mime |-> {}]
SniffNone == [ok |-> TRUE, some |-> FALSE, mime |-> {}]
SniffSome(m) == [ok |-> TRUE, some |-> TRUE, mime |-> m]
SniffResults == {SniffErr, SniffNone} \cup {SniffSome(m) : m \in MimeTypes}

\* Byte samples returned by the first read of the file (at most 256 bytes).
Rep(b, n) == [i \in 1..n |-> b]
Samples ==
    { <<>>,
      <<72, 105>>,
      <<0, 1, 2, 3>>,
      <<72, 105, 33, 32, 97, 98, 126, 0, 127, 200>>,
      <<72, 105, 33, 32, 97, 98, 126, 48, 127, 200>>,
      Rep(0, SAMPLE_SIZE - 26) \o Rep(65, 26) }
ReadErr == [ok |-> FALSE, v |-> <<>>]
ReadResults == {ReadErr} \cup {Ok(s) : s \in Samples}

(***************************************************************************)
(* strings.rs: the printable-ASCII heuristic.                              *)
(***************************************************************************)
\* printable as f32 / buffer.len() as f32, kept as the exact fraction
\* <<printable, len>>
\* variant: the range includes DEL ((32..=127).contains(&byte))
proportion_of_printable_ascii_characters_InclDel(buffer) ==
    << Cardinality({i \in 1..Len(buffer) : buffer[i] >= 32 /\ buffer[i] <= 127}),
       Len(buffer) >>

proportion_of_printable_ascii_characters(buffer) ==
    << Cardinality({i \in 1..Len(buffer) : buffer[i] >= 32 /\ buffer[i] < 127}),
       Len(buffer) >>

\* variant: the threshold itself counts as text (>= instead of >)
ExceedsPrintableThreshold_AtLeast(ratio) ==
    /\ ratio[2] > 0
    /\ 10 * ratio[1] >= 7 * ratio[2]

\* ratio > PRINTABLE_ASCII_THRESHOLD (0.7); 0/0 is NaN, which compares false
ExceedsPrintableThreshold(ratio) ==
    /\ ratio[2] > 0
    /\ 10 * ratio[1] > 7 * ratio[2]

(***************************************************************************)
(* files.rs: get_file_type.                                                *)
(***************************************************************************)
get_file_type(sniff, known_ext, opened, read) ==
    LET file_type ==
            IF sniff.ok /\ sniff.some
            THEN IF "image" \in sniff.mime THEN Image
                 ELSE IF "text" \in sniff.mime THEN Text
                 ELSE Other
            ELSE Unknown
    IN  IF file_type = Unknown
        THEN IF known_ext THEN Text
             ELSE IF opened /\ read.ok
                     /\ Len(read.v) > 0
                     /\ ExceedsPrintableThreshold(
                            proportion_of_printable_ascii_characters(read.v))
                  THEN Text
                  ELSE Unknown
        ELSE file_type

\* get_file_type reached `if let Ok(mut f) = File::open(path)` for the
\* sample, and the open failed
sample_open_failed(sniff, known_ext, opened) ==
    ~(sniff.ok /\ sniff.some) /\ ~known_ext /\ ~opened

\* variant: the sample is read with one read call per byte of the file
get_file_type_ops_ReadAll(sniff, known_ext, opened, read) ==
    IF (sniff.ok /\ sniff.some) \/ known_ext THEN 1
    ELSE IF opened THEN 2 + Len(read.v) ELSE 2

\* file-system operations of one get_file_type call: infer::get_from_path,
\* then, for an undetected type without a known text extension, File::open
\* and, when it opened, one f.read of at most 256 bytes
get_file_type_ops(sniff, known_ext, opened, read) ==
    IF (sniff.ok /\ sniff.some) \/ known_ext THEN 1
    ELSE IF opened THEN 3 ELSE 2

(***************************************************************************)
(* The preview cache (cache.rs is not part of the sources; get and insert  *)
(* follow the cache contract: lookup, and unconditional upsert).           *)
(***************************************************************************)
cache_get(c, key) == c[key]

\* variant: an insert drops the entries of the other keys
cache_insert_Evicting(c, key, preview) ==
    [k \in DOMAIN c |-> IF k = key THEN preview ELSE Absent]

cache_insert(c, key, preview) == [c EXCEPT ![key] = preview]

VARIABLES
    cache,      \* PreviewCache: entry name -> cached preview kind, or Absent
    lock,       \* holder of the cache mutex, or NoHolder
    pc,         \* per caller: position inside preview()
    arg,        \* per caller: the entry passed to preview()
    seen,       \* per caller: what the call got from the file system so far
    preview,    \* per caller: the local `preview`, and the value returned
    tasks,      \* background tasks spawned by compute_highlighted_text_preview
    started,    \* per entry: number of background computations ever spawned
    log,        \* per entry: read and highlight outcome of the finished task
    pure        \* the last call of a pure function: its inputs and its result

vars == <<cache, lock, pc, arg, seen, preview, tasks, started, log, pure>>

NoHolder == <<"none">>
CallHolder(c) == <<"call", c>>
TaskHolder(t) == <<"task", t.entry, t.n>>

NoSize == [ok |-> FALSE, v |-> -1]
NoType == "NoType"
NoSeen == [size |-> NoSize, ftype |-> NoType, sample_err |-> FALSE,
           opened |-> "none", ops |-> 0]
NoLog == [read |-> "none", hl |-> "none"]
NoCall == [op |-> "none"]

Init ==
    /\ cache = [e \in Entries |-> Absent]
    /\ lock = NoHolder
    /\ pc = [c \in Callers |-> "idle"]
    /\ arg = [c \in Callers |-> 0]
    /\ seen = [c \in Callers |-> NoSeen]
    /\ preview = [c \in Callers |-> Absent]
    /\ tasks = {}
    /\ started = [e \in Entries |-> 0]
    /\ log = [e \in Entries |-> NoLog]
    /\ pure = NoCall

(***************************************************************************)
(* files.rs: preview(), one action per step of the call.                   *)
(***************************************************************************)
\* variant: preview(&self), calls may overlap
SharedBorrow(c) == TRUE

\* `&mut self`: a call holds the previewer exclusively from entry to return
ExclusiveBorrow(c) == \A d \in Callers \ {c} : pc[d] = "idle"

\* preview() is entered with entry e
preview_call(c, e) ==
    /\ pc[c] = "idle"
    /\ ExclusiveBorrow(c)
    /\ pc' = [pc EXCEPT ![c] = "lookup"]
    /\ arg' = [arg EXCEPT ![c] = e]
    /\ UNCHANGED <<pure, cache, lock, seen, preview, tasks, started, log>>

\* self.cache.lock() of the lookup
lookup_lock(c) ==
    /\ pc[c] = "lookup"
    /\ lock = NoHolder
    /\ lock' = CallHolder(c)
    /\ pc' = [pc EXCEPT ![c] = "lookup_held"]
    /\ UNCHANGED <<pure, cache, arg, seen, preview, tasks, started, log>>

\* variant: a cached Loading placeholder is not taken as a hit
IsHit_IgnoreLoading(found) == found \notin {Absent, Loading}

\* variant: a cached NotSupported is retried
IsHit_RetryNotSupported(found) == found \notin {Absent, NotSupported}

\* if let Some(preview) = ...get(&entry.name) { return preview.clone(); }
IsHit(found) == found # Absent

\* variant: the guard is bound to a local that lives to the end of preview()
GuardAfterLookup_Kept(c) == CallHolder(c)

\* the MutexGuard is a temporary of the `if let`: it is dropped when the
\* statement ends, before the size check
GuardAfterLookup(c) == NoHolder

lookup(c) ==
    /\ pc[c] = "lookup_held"
    /\ lock' = GuardAfterLookup(c)
    /\ LET found == cache_get(cache, arg[c])
       IN  IF IsHit(found)
           THEN /\ preview' = [preview EXCEPT ![c] = found]
                /\ pc' = [pc EXCEPT ![c] = "returned"]
           ELSE /\ pc' = [pc EXCEPT ![c] = "size"]
                /\ UNCHANGED preview
    /\ UNCHANGED <<pure, cache, arg, seen, tasks, started, log>>

\* variant: a failed size query counts as too large (map_or(true, ..))
IsTooLarge_OnError(file_size) == ~file_size.ok \/ file_size.v > MAX_FILE_SIZE

\* variant: s >= MAX_FILE_SIZE
IsTooLarge_AtCeiling(file_size) == file_size.ok /\ file_size.v >= MAX_FILE_SIZE

\* get_file_size(&path_buf).map_or(false, |s| s > Self::MAX_FILE_SIZE)
IsTooLarge(file_size) == file_size.ok /\ file_size.v > MAX_FILE_SIZE

check_size(c) ==
    /\ pc[c] = "size"
    /\ \E file_size \in SizeResults :
        /\ seen' = [seen EXCEPT ![c].size = file_size, ![c].ops = @ + 1]
        /\ IF IsTooLarge(file_size)
           THEN /\ preview' = [preview EXCEPT ![c] = TooLarge]
                /\ pc' = [pc EXCEPT ![c] = "cache_lock"]
           ELSE /\ pc' = [pc EXCEPT ![c] = "classify"]
                /\ UNCHANGED preview
    /\ UNCHANGED <<pure, cache, lock, arg, tasks, started, log>>

\* match self.get_file_type(&path_buf): the Image, Other and Unknown arms
\* build meta::not_supported; the Text arm builds nothing before the open
\* variant: the Image arm inserts the loading placeholder
ArmPreview_ImageLoading(file_type) ==
    IF file_type = Text THEN Absent
    ELSE IF file_type = Image THEN Loading ELSE NotSupported

ArmPreview(file_type) == IF file_type = Text THEN Absent ELSE NotSupported

classify(c) ==
    /\ pc[c] = "classify"
    /\ \E sniff \in SniffResults, known_ext \in BOOLEAN,
          opened \in BOOLEAN, read \in ReadResults :
        LET file_type == get_file_type(sniff, known_ext, opened, read)
        IN  /\ seen' = [seen EXCEPT
                        ![c].ftype = file_type,
                        ![c].sample_err =
                            sample_open_failed(sniff, known_ext, opened),
                        ![c].ops = @ + get_file_type_ops(sniff, known_ext,
                                                         opened, read)]
            /\ IF file_type = Text
               THEN /\ pc' = [pc EXCEPT ![c] = "open"]
                    /\ UNCHANGED preview
               ELSE /\ preview' = [preview EXCEPT ![c] = ArmPreview(file_type)]
                    /\ pc' = [pc EXCEPT ![c] = "cache_lock"]
    /\ UNCHANGED <<pure, cache, lock, arg, tasks, started, log>>

\* variant: the placeholder is built whatever File::open returned
OpenArm_AlwaysLoading(opened) == Loading

\* match File::open(&path_buf): Ok builds Loading, Err builds NotSupported
OpenArm(opened) == IF opened THEN Loading ELSE NotSupported

open_file(c) ==
    /\ pc[c] = "open"
    /\ \E opened \in BOOLEAN :
        /\ seen' = [seen EXCEPT ![c].opened = IF opened THEN "ok" ELSE "err",
                                ![c].ops = @ + 1]
        /\ preview' = [preview EXCEPT ![c] = OpenArm(opened)]
    /\ pc' = [pc EXCEPT ![c] = "cache_lock"]
    /\ UNCHANGED <<pure, cache, lock, arg, tasks, started, log>>

\* cache_preview: self.cache.lock()
cache_preview_lock(c) ==
    /\ pc[c] = "cache_lock"
    /\ lock = NoHolder
    /\ lock' = CallHolder(c)
    /\ pc' = [pc EXCEPT ![c] = "cache_held"]
    /\ UNCHANGED <<pure, cache, arg, seen, preview, tasks, started, log>>

\* cache_preview: .insert(key, preview); the Loading arm goes on to the
\* seek, every other arm returns the preview
cache_preview(c) ==
    /\ pc[c] = "cache_held"
    /\ cache' = cache_insert(cache, arg[c], preview[c])
    /\ lock' = NoHolder
    /\ pc' = [pc EXCEPT ![c] =
                IF preview[c] = Loading THEN "seek" ELSE "returned"]
    /\ UNCHANGED <<pure, arg, seen, preview, tasks, started, log>>

\* reader.seek(SeekFrom::Start(0)).unwrap()
seek(c) ==
    /\ pc[c] = "seek"
    /\ \E sought \in BOOLEAN :
        pc' = [pc EXCEPT ![c] = IF sought THEN "spawn" ELSE "panicked"]
    /\ seen' = [seen EXCEPT ![c].ops = @ + 1]
    /\ UNCHANGED <<pure, cache, lock, arg, preview, tasks, started, log>>

\* compute_highlighted_text_preview: tokio::spawn of the background task,
\* then preview() returns the Loading placeholder
NewTask(e, n) ==
    [entry |-> e, n |-> n, phase |-> "read", read |-> "none", hl |-> "none"]

compute_highlighted_text_preview(c) ==
    /\ pc[c] = "spawn"
    /\ tasks' = tasks \cup {NewTask(arg[c], started[arg[c]] + 1)}
    /\ started' = [started EXCEPT ![arg[c]] = @ + 1]
    /\ pc' = [pc EXCEPT ![c] = "returned"]
    /\ UNCHANGED <<pure, cache, lock, arg, seen, preview, log>>

\* the caller takes the returned value (or the panic unwinds) and the
\* exclusive borrow of the previewer ends
preview_exit(c) ==
    /\ pc[c] \in {"returned", "panicked"}
    /\ pc' = [pc EXCEPT ![c] = "idle"]
    /\ arg' = [arg EXCEPT ![c] = 0]
    /\ seen' = [seen EXCEPT ![c] = NoSeen]
    /\ preview' = [preview EXCEPT ![c] = Absent]
    /\ UNCHANGED <<pure, cache, lock, tasks, started, log>>

(***************************************************************************)
(* files.rs: the task spawned by compute_highlighted_text_preview.         *)
(***************************************************************************)
Advance(t, phase, read, hl) ==
    (tasks \ {t}) \cup {[t EXCEPT !.phase = phase, !.read = read, !.hl = hl]}

\* reader.lines().map_while(Result::ok).map(preprocess_line).collect():
\* a read error ends the collection, the lines read so far are kept
read_lines(t) ==
    /\ t.phase = "read"
    /\ \E r \in {"ok", "err"} : tasks' = Advance(t, "highlight", r, t.hl)
    /\ UNCHANGED <<pure, cache, lock, pc, arg, seen, preview, started, log>>

\* syntax::compute_highlights_for_path(...)
compute_highlights(t) ==
    /\ t.phase = "highlight"
    /\ \E h \in {"ok", "err"} : tasks' = Advance(t, "store_lock", t.read, h)
    /\ UNCHANGED <<pure, cache, lock, pc, arg, seen, preview, started, log>>

\* cache.lock() of the task
task_lock(t) ==
    /\ t.phase = "store_lock"
    /\ lock = NoHolder
    /\ lock' = TaskHolder(t)
    /\ tasks' = Advance(t, "store_held", t.read, t.hl)
    /\ UNCHANGED <<pure, cache, pc, arg, seen, preview, started, log>>

\* Ok(highlighted_lines) => SyntectHighlightedText, Err(e) => not_supported
TaskResult(read, hl) == IF hl = "ok" THEN HighlightedText ELSE NotSupported

\* variant: the task writes its result into the Preview that is already in
\* the cache, which the earlier callers still hold
HeldAfterInsert_InPlace(held, key, result) ==
    [c \in Callers |->
        IF pc[c] = "returned" /\ arg[c] = key /\ held[c] = cache[key]
        THEN result ELSE held[c]]

\* the task inserts a new Arc::new(Preview::new(..)): the handles returned
\* by earlier calls keep pointing at the Preview they were given
HeldAfterInsert(held, key, result) == held

\* .insert(entry_c.name.clone(), ...), and the task ends
task_store(t) ==
    /\ t.phase = "store_held"
    /\ cache' = cache_insert(cache, t.entry, TaskResult(t.read, t.hl))
    /\ lock' = NoHolder
    /\ tasks' = tasks \ {t}
    /\ log' = [log EXCEPT ![t.entry] = [read |-> t.read, hl |-> t.hl]]
    /\ preview' = HeldAfterInsert(preview, t.entry, TaskResult(t.read, t.hl))
    /\ UNCHANGED <<pure, pc, arg, seen, started>>

CallStep(c) ==
    \/ lookup_lock(c)
    \/ lookup(c)
    \/ check_size(c)
    \/ classify(c)
    \/ open_file(c)
    \/ cache_preview_lock(c)
    \/ cache_preview(c)
    \/ seek(c)
    \/ compute_highlighted_text_preview(c)
    \/ preview_exit(c)

TaskRun(t) ==
    \/ read_lines(t)
    \/ compute_highlights(t)
    \/ task_lock(t)
    \/ task_store(t)

TaskStep(e) == \E t \in tasks : t.entry = e /\ TaskRun(t)

Next ==
    \/ \E c \in Callers, e \in Entries : preview_call(c, e)
    \/ \E c \in Callers : CallStep(c)
    \/ \E t \in tasks : read_lines(t)
    \/ \E t \in tasks : compute_highlights(t)
    \/ \E t \in tasks : task_lock(t)
    \/ \E t \in tasks : task_store(t)

Spec == Init /\ [][Next]_vars

\* A call that was entered runs to its end, spawned tasks are scheduled, and
\* the mutex is eventually granted to each waiter; nothing obliges a caller
\* to call preview() again.
FairSpec ==
    /\ Spec
    /\ \A c \in Callers : SF_vars(CallStep(c))
    /\ \A e \in Entries : SF_vars(TaskStep(e))

(***************************************************************************)
(* Vocabulary of the properties.                                           *)
(***************************************************************************)
Finished(c) == pc[c] = "returned"
\* the call found nothing in the cache and went on to the file system
Missed(c) == pc[c] \in {"size", "classify", "open", "cache_lock", "cache_held",
                        "seek", "spawn", "panicked"}
             \/ (pc[c] = "returned" /\ seen[c].size # NoSize)
\* the call was answered by the cache lookup
AnsweredFromCache(c) == pc[c] = "returned" /\ seen[c].size = NoSize
TasksOf(e) == {t \in tasks : t.entry = e}
Exceeds(c) == seen[c].size.ok /\ seen[c].size.v > MAX_FILE_SIZE

(***************************************************************************)
(* C1: at most one background highlight computation is ever started per    *)
(* entry identifier. A call is about to start one only when none was       *)
(* started before for its entry (the entry was cold); the call that        *)
(* returns the fresh Loading placeholder has started exactly one; once     *)
(* one was started the cache holds Loading or the task's result, so later  *)
(* calls are answered from the cache.                                      *)
(***************************************************************************)
C1_AtMostOneComputation ==
    /\ \A e \in Entries :
        /\ started[e] <= 1
        /\ started[e] = 1 => cache[e] \in {Loading, HighlightedText, NotSupported}
    /\ \A c \in Callers :
        /\ pc[c] \in {"seek", "spawn"} => started[arg[c]] = 0
        /\ (Finished(c) /\ Missed(c) /\ preview[c] = Loading)
              => started[arg[c]] = 1

\* a second call for the entry was answered with the cached Loading
C1_Witness ==
    \E c \in Callers :
        /\ AnsweredFromCache(c)
        /\ preview[c] = Loading
        /\ started[arg[c]] = 1
        /\ TasksOf(arg[c]) # {}

(***************************************************************************)
(* C2 as stated: the lookup that misses and the insert of the placeholder  *)
(* are one lock acquisition, i.e. from the miss to the insert the call     *)
(* holds the cache lock.                                                   *)
(***************************************************************************)
C2_OneLockAcquisition ==
    \A c \in Callers :
        pc[c] \in {"size", "classify", "open", "cache_lock"}
            => lock = CallHolder(c)

(***************************************************************************)
(* C2 amended: the lookup and the insert are separate lock acquisitions,   *)
(* but preview() takes the previewer by exclusive reference, so two        *)
(* requests never interleave: at most one call is in progress, no two      *)
(* calls have both missed on one identifier, and at most one background    *)
(* computation exists per identifier.                                      *)
(***************************************************************************)
C2_SerializedRequests ==
    /\ Cardinality({c \in Callers : pc[c] # "idle"}) <= 1
    /\ \A c, d \in Callers :
        (c # d /\ Missed(c) /\ Missed(d)) => arg[c] # arg[d]
    /\ \A e \in Entries : Cardinality(TasksOf(e)) <= 1

\* the window between lookup and insert: the call has missed, is about to
\* insert Loading for an entry, and a background task holds the lock
C2_Witness ==
    \E c \in Callers :
        /\ pc[c] = "cache_lock"
        /\ preview[c] = Loading
        /\ lock[1] = "task"

(***************************************************************************)
(* C3: per identifier the cache only moves absent -> Loading ->            *)
(* {HighlightedText, NotSupported} or absent -> {TooLarge, NotSupported};  *)
(* a terminal value is never replaced.                                     *)
(***************************************************************************)
C3_MonotoneCache ==
    [][\A e \in Entries :
          \/ cache'[e] = cache[e]
          \/ cache[e] = Absent /\ cache'[e] \in {Loading, TooLarge, NotSupported}
          \/ cache[e] = Loading /\ cache'[e] \in {HighlightedText, NotSupported}
      ]_vars

\* a later call found the terminal value a task had written, and another
\* entry holds a terminal value written by preview() itself
C3_Witness ==
    \E c \in Callers :
        /\ AnsweredFromCache(c)
        /\ preview[c] \in {HighlightedText, NotSupported}
        /\ log[arg[c]] # NoLog
        /\ cache[arg[c]] = preview[c]
        /\ \E e \in Entries : cache[e] = TooLarge

(***************************************************************************)
(* C4: every identifier whose cache entry is Loading eventually gets a     *)
(* terminal entry (HighlightedText or NotSupported), under fair scheduling *)
(* of the started calls and of the background tasks.                       *)
(***************************************************************************)
C4_LoadingResolves ==
    \A e \in Entries :
        (cache[e] = Loading) ~> (cache[e] \in {HighlightedText, NotSupported})

(***************************************************************************)
(* C5: on a miss for a file classified Text that opens, preview() inserts  *)
(* Loading before the background task is started, the call returns that    *)
(* Loading placeholder, and once the highlighter has succeeded and the     *)
(* task has finished the cache holds HighlightedText, which is what a call *)
(* answered from the cache returns (a call answered before the task        *)
(* finished still holds the Loading it was given).                         *)
(***************************************************************************)
C5_TextMissReturnsLoading ==
    /\ \A c \in Callers :
        (seen[c].ftype = Text /\ seen[c].opened = "ok") =>
            /\ preview[c] = Loading
            /\ pc[c] \in {"cache_lock", "cache_held", "seek", "spawn", "returned"}
            /\ pc[c] \in {"seek", "spawn"} =>
                  (cache[arg[c]] = Loading /\ TasksOf(arg[c]) = {})
            /\ pc[c] = "returned" =>
                  (started[arg[c]] = 1
                   /\ cache[arg[c]] \in {Loading, HighlightedText, NotSupported})
    /\ \A t \in tasks : cache[t.entry] = Loading
    /\ \A e \in Entries : log[e].hl = "ok" => cache[e] = HighlightedText
    /\ \A c \in Callers :
        (AnsweredFromCache(c) /\ log[arg[c]].hl = "ok")
            => preview[c] \in {HighlightedText, Loading}

(***************************************************************************)
(* C6: on a miss, a size above 4 MiB makes preview() cache and return      *)
(* TooLarge without classifying the file, inserting Loading or starting a  *)
(* task; a size that does not exceed the ceiling (or an unknown size)      *)
(* never gives TooLarge.                                                   *)
(***************************************************************************)
C6_TooLargeAboveCeiling ==
    \A c \in Callers :
        /\ Exceeds(c) =>
            /\ preview[c] = TooLarge
            /\ pc[c] \in {"cache_lock", "cache_held", "returned"}
            /\ seen[c].ftype = NoType
            /\ cache[arg[c]] \in {Absent, TooLarge}
            /\ pc[c] = "returned" => cache[arg[c]] = TooLarge
            /\ started[arg[c]] = 0
            /\ TasksOf(arg[c]) = {}
        /\ (Missed(c) /\ preview[c] = TooLarge) => Exceeds(c)

\* the 5 MiB file: TooLarge returned and cached, nothing started
C6_Witness ==
    \E c \in Callers :
        /\ pc[c] = "returned"
        /\ seen[c].size = Ok(5 * 1024 * 1024)
        /\ preview[c] = TooLarge
        /\ cache[arg[c]] = TooLarge
        /\ started[arg[c]] = 0

(***************************************************************************)
(* C7: on a miss for a file classified Image, Other or Unknown, preview()  *)
(* caches NotSupported and returns it; it never inserts Loading and never  *)
(* starts a background task for the file.                                  *)
(***************************************************************************)
C7_NonTextNotSupported ==
    \A c \in Callers :
        seen[c].ftype \in {Image, Other, Unknown} =>
            /\ preview[c] = NotSupported
            /\ pc[c] \in {"cache_lock", "cache_held", "returned"}
            /\ cache[arg[c]] \in {Absent, NotSupported}
            /\ pc[c] = "returned" => cache[arg[c]] = NotSupported
            /\ started[arg[c]] = 0
            /\ TasksOf(arg[c]) = {}

\* an image file was answered NotSupported, which is now cached
C7_Witness ==
    \E c \in Callers :
        /\ pc[c] = "returned"
        /\ seen[c].ftype = Image
        /\ preview[c] = NotSupported
        /\ cache[arg[c]] = NotSupported

(***************************************************************************)
(* C8: when a file classified Text cannot be opened, preview() caches      *)
(* NotSupported and returns it; the cache never holds Loading for the      *)
(* identifier and no background task is started.                           *)
(***************************************************************************)
C8_OpenFailureNotSupported ==
    \A c \in Callers :
        (seen[c].ftype = Text /\ seen[c].opened = "err") =>
            /\ preview[c] = NotSupported
            /\ pc[c] \in {"cache_lock", "cache_held", "returned"}
            /\ cache[arg[c]] \in {Absent, NotSupported}
            /\ pc[c] = "returned" => cache[arg[c]] = NotSupported
            /\ started[arg[c]] = 0
            /\ TasksOf(arg[c]) = {}

\* the open of a Text file failed and NotSupported was returned and cached
C8_Witness ==
    \E c \in Callers :
        /\ pc[c] = "returned"
        /\ seen[c].ftype = Text
        /\ seen[c].opened = "err"
        /\ preview[c] = NotSupported
        /\ cache[arg[c]] = NotSupported

(***************************************************************************)
(* C9: a read error while the background task reads the file's lines       *)
(* ends in a cached NotSupported for the identifier.                        *)
(***************************************************************************)
C9_ReadErrorNotSupported ==
    \A e \in Entries : log[e].read = "err" => cache[e] = NotSupported

(***************************************************************************)
(* C10: no failure surfaces as a panic: every preview() call returns a     *)
(* Preview value, and that value or a later one is cached for the          *)
(* identifier.                                                             *)
(***************************************************************************)
C10_NoPanic ==
    \A c \in Callers :
        /\ pc[c] # "panicked"
        /\ pc[c] = "returned" =>
            /\ preview[c] \in PreviewKinds
            /\ cache[arg[c]] \in PreviewKinds
            /\ cache[arg[c]] = preview[c] \/ preview[c] = Loading

(***************************************************************************)
(* C11: a preview() call that finds a value cached for its entry (Loading  *)
(* or terminal) returns exactly that value and changes nothing else: no    *)
(* cache write, no file access, no background task; a cached NotSupported  *)
(* or TooLarge is not retried.                                             *)
(***************************************************************************)
C11_HitChangesNothing ==
    [][\A c \in Callers :
          (pc[c] = "lookup_held" /\ pc'[c] # "lookup_held"
           /\ cache[arg[c]] # Absent) =>
              /\ pc'[c] = "returned"
              /\ preview'[c] = cache[arg[c]]
              /\ cache' = cache
              /\ seen' = seen
              /\ seen[c] = NoSeen
              /\ tasks' = tasks
              /\ started' = started
              /\ log' = log
      ]_vars

\* a call was answered with a cached NotSupported and went to no file
C11_Witness ==
    \E c \in Callers :
        /\ AnsweredFromCache(c)
        /\ preview[c] = NotSupported
        /\ cache[arg[c]] = NotSupported
        /\ seen[c] = NoSeen

C13_LockOnlyAroundCacheAccess ==
    /\ \A c \in Callers :
        lock = CallHolder(c) <=> pc[c] \in {"lookup_held", "cache_held"}
    /\ \A t \in tasks :
        lock = TaskHolder(t) <=> t.phase = "store_held"
    /\ lock # NoHolder =>
        \/ \E c \in Callers : lock = CallHolder(c)
        \/ \E t \in tasks : lock = TaskHolder(t)

\* a task reads its file (without the lock) while a call holds the lock for
\* its insert
C13_Witness ==
    /\ \E t \in tasks : t.phase = "read"
    /\ \E c \in Callers : pc[c] = "cache_held"

(***************************************************************************)
(* C14 as stated: on any path preview() performs at most one file-system   *)
(* operation before it returns.                                            *)
(***************************************************************************)
C14_AtMostOneFsOperation ==
    \A c \in Callers : seen[c].ops <= 1

(***************************************************************************)
(* C14 amended: preview() never reads the file's lines and never runs the  *)
(* highlighter (both happen only in the task, which exists only once the   *)
(* call has spawned it), and it performs at most six bounded-size          *)
(* file-system operations: size query, sniff, sample open, sample read,    *)
(* open, seek; none when it is answered from the cache.                    *)
(***************************************************************************)
C14_BoundedFsOperations ==
    \A c \in Callers :
        /\ seen[c].ops <= 6
        /\ AnsweredFromCache(c) => seen[c].ops = 0
        /\ (Missed(c) /\ pc[c] # "returned") =>
              (TasksOf(arg[c]) = {} /\ log[arg[c]] = NoLog)

\* the longest path: six operations, then the task is spawned
C14_Witness ==
    \E c \in Callers :
        /\ pc[c] = "returned"
        /\ seen[c].ops = 6
        /\ \E t \in TasksOf(arg[c]) : t.phase = "read"

(***************************************************************************)
(* The pure functions, each applied to inputs drawn from bounded sets.     *)
(* A call records its inputs and its result in `pure`; `ret` forgets the   *)
(* call, so that the next one starts from the same place.                  *)
(***************************************************************************)
PreviewerVars == <<cache, lock, pc, arg, seen, preview, tasks, started, log>>

\* files.rs: get_file_type on one sniffing outcome, extension test and sample
call_get_file_type ==
    /\ pure = NoCall
    /\ \E sniff \in SniffResults, known_ext \in BOOLEAN,
          opened \in BOOLEAN, read \in ReadResults :
            pure' = [op |-> "get_file_type", sniff |-> sniff,
                     known_ext |-> known_ext, opened |-> opened, read |-> read,
                     out |-> get_file_type(sniff, known_ext, opened, read)]
    /\ UNCHANGED PreviewerVars

(***************************************************************************)
(* strings.rs: a &str is its UTF-8 bytes.  The strings are built from      *)
(* characters of every encoded width, so that byte offsets fall inside     *)
(* characters.                                                             *)
(***************************************************************************)
MaxChars == 3

\* char::encode_utf8: the bytes of one code point
Utf8Encode(c) ==
    IF c < 128 THEN << c >>
    ELSE IF c < 2048 THEN << 192 + (c \div 64), 128 + (c % 64) >>
    ELSE IF c < 65536
         THEN << 224 + (c \div 4096), 128 + ((c \div 64) % 64), 128 + (c % 64) >>
    ELSE << 240 + (c \div 262144), 128 + ((c \div 4096) % 64),
            128 + ((c \div 64) % 64), 128 + (c % 64) >>

\* the bytes of a string: the encodings of its characters, one after the
\* other (joined by halves)
RECURSIVE Utf8EncodeAll(_)
Utf8EncodeAll(chars) ==
    IF chars = << >> THEN << >>
    ELSE IF Len(chars) = 1 THEN Utf8Encode(chars[1])
    ELSE Utf8EncodeAll(SubSeq(chars, 1, Len(chars) \div 2))
         \o Utf8EncodeAll(SubSeq(chars, Len(chars) \div 2 + 1, Len(chars)))

\* 'a', U+00E9, U+20AC, U+1F44B: one, two, three and four bytes
StrAlphabet == {97, 233, 8364, 128075}
StrChars == UNION {[1..n -> StrAlphabet] : n \in 0..MaxChars}

\* byte offsets handed to the functions: inside, at the end and past the end
Indexes(s) == 0..(Len(s) + 2)

\* str::is_char_boundary: 0 and len are boundaries, an offset past the end is
\* not, and inside the string every byte that is not a continuation byte is
is_char_boundary(s, index) ==
    IF index = 0 THEN TRUE
    ELSE IF index >= Len(s) THEN index = Len(s)
    ELSE s[index + 1] < 128 \/ s[index + 1] >= 192

RECURSIVE next_char_boundary_loop(_, _)
next_char_boundary_loop(s, i) ==
    IF ~is_char_boundary(s, i) /\ i < Len(s)
    THEN next_char_boundary_loop(s, i + 1)
    ELSE i

\* variant: without the early return for an index at or past the end
next_char_boundary_Unclamped(s, start) == next_char_boundary_loop(s, start)

next_char_boundary(s, start) ==
    IF start >= Len(s) THEN Len(s)
    ELSE next_char_boundary_loop(s, start)

RECURSIVE prev_char_boundary(_, _)
prev_char_boundary(s, start) ==
    IF ~is_char_boundary(s, start) /\ start > 0
    THEN prev_char_boundary(s, start - 1)
    ELSE start

\* &s[lo..hi]: panics unless lo <= hi <= len and both are char boundaries
Sliced(v) == [panic |-> FALSE, v |-> v]
SlicePanic == [panic |-> TRUE, v |-> << >>]
str_index(s, lo, hi) ==
    IF lo <= hi /\ hi <= Len(s)
       /\ is_char_boundary(s, lo) /\ is_char_boundary(s, hi)
    THEN Sliced(SubSeq(s, lo + 1, hi))
    ELSE SlicePanic

\* variant: the end index is not tested against the length
slice_at_char_boundaries_NoEndCheck(s, start_byte_index, end_byte_index) ==
    IF start_byte_index > end_byte_index \/ start_byte_index > Len(s)
    THEN Sliced(<< >>)
    ELSE str_index(s, prev_char_boundary(s, start_byte_index),
                      next_char_boundary(s, end_byte_index))

slice_at_char_boundaries(s, start_byte_index, end_byte_index) ==
    IF \/ start_byte_index > end_byte_index
       \/ start_byte_index > Len(s)
       \/ end_byte_index > Len(s)
    THEN Sliced(<< >>)
    ELSE str_index(s, prev_char_boundary(s, start_byte_index),
                      next_char_boundary(s, end_byte_index))

call_next_char_boundary ==
    /\ pure = NoCall
    /\ \E chars \in StrChars :
         LET s == Utf8EncodeAll(chars)
         IN  \E start \in Indexes(s) :
                pure' = [op |-> "next_char_boundary", chars |-> chars, s |-> s,
                         start |-> start, out |-> next_char_boundary(s, start)]
    /\ UNCHANGED PreviewerVars

call_prev_char_boundary ==
    /\ pure = NoCall
    /\ \E chars \in StrChars :
         LET s == Utf8EncodeAll(chars)
         IN  \E start \in Indexes(s) :
                pure' = [op |-> "prev_char_boundary", chars |-> chars, s |-> s,
                         start |-> start, out |-> prev_char_boundary(s, start)]
    /\ UNCHANGED PreviewerVars

call_slice_at_char_boundaries ==
    /\ pure = NoCall
    /\ \E chars \in StrChars :
         LET s == Utf8EncodeAll(chars)
         IN  \E start \in Indexes(s), end \in Indexes(s) :
                pure' = [op |-> "slice_at_char_boundaries", chars |-> chars,
                         s |-> s, start |-> start, end |-> end,
                         out |-> slice_at_char_boundaries(s, start, end)]
    /\ UNCHANGED PreviewerVars

(***************************************************************************)
(* strings.rs: try_parse_utf8_char and replace_non_printable.  A byte      *)
(* buffer is a sequence of bytes, a String a sequence of code points.      *)
(***************************************************************************)
MaxBuf == 3

TAB_WIDTH == 4
SPACE_CHARACTER == 32
TAB_CHARACTER == 9
LINE_FEED_CHARACTER == 10
DELETE_CHARACTER == 127
BOM_CHARACTER == 65279
NULL_CHARACTER == 0
UNIT_SEPARATOR_CHARACTER == 31
APPLICATION_PROGRAM_COMMAND_CHARACTER == 159
NULL_SYMBOL == 9216

IsContinuation(b) == b \in 128..191

\* std::str::from_utf8 on the front of a slice: the width of the well-formed
\* sequence the slice starts with, 0 when it starts with none
Utf8Width(seq) ==
    LET n  == Len(seq)
        b0 == seq[1]
        b1 == seq[2]
        b2 == seq[3]
        b3 == seq[4]
    IN  IF n = 0 THEN 0
        ELSE IF b0 < 128 THEN 1
        ELSE IF b0 \in 194..223
             THEN IF n >= 2 /\ IsContinuation(b1) THEN 2 ELSE 0
        ELSE IF b0 \in 224..239
             THEN IF /\ n >= 3
                     /\ CASE b0 = 224 -> b1 \in 160..191
                          [] b0 = 237 -> b1 \in 128..159
                          [] OTHER    -> IsContinuation(b1)
                     /\ IsContinuation(b2)
                  THEN 3 ELSE 0
        ELSE IF b0 \in 240..244
             THEN IF /\ n >= 4
                     /\ CASE b0 = 240 -> b1 \in 144..191
                          [] b0 = 244 -> b1 \in 128..143
                          [] OTHER    -> IsContinuation(b1)
                     /\ IsContinuation(b2)
                     /\ IsContinuation(b3)
                  THEN 4 ELSE 0
        ELSE 0

\* std::str::from_utf8(seq).ok(): the whole slice is well-formed
RECURSIVE from_utf8_ok(_)
from_utf8_ok(seq) ==
    IF seq = << >> THEN TRUE
    ELSE LET w == Utf8Width(seq)
         IN  w > 0 /\ from_utf8_ok(SubSeq(seq, w + 1, Len(seq)))

\* seq.chars().next().unwrap() of a well-formed slice
first_char(seq) ==
    LET w == Utf8Width(seq)
    IN  CASE w = 1 -> seq[1]
          [] w = 2 -> (seq[1] - 192) * 64 + (seq[2] - 128)
          [] w = 3 -> (seq[1] - 224) * 4096 + (seq[2] - 128) * 64
                      + (seq[3] - 128)
          [] OTHER -> (seq[1] - 240) * 262144 + (seq[2] - 128) * 4096
                      + (seq[3] - 128) * 64 + (seq[4] - 128)

NoChar == [some |-> FALSE, chr |-> 0, skip_ahead |-> 0]
SomeChar(chr, n) == [some |-> TRUE, chr |-> chr, skip_ahead |-> n]

\* input.get(0..n).and_then(str_from_utf8) for n = 1, 2, 3, 4 in turn
try_parse_utf8_char(input) ==
    LET decodes(n) == n <= Len(input) /\ from_utf8_ok(SubSeq(input, 1, n))
    IN  IF decodes(1) THEN SomeChar(first_char(SubSeq(input, 1, 1)), 1)
        ELSE IF decodes(2) THEN SomeChar(first_char(SubSeq(input, 1, 2)), 2)
        ELSE IF decodes(3) THEN SomeChar(first_char(SubSeq(input, 1, 3)), 3)
        ELSE IF decodes(4) THEN SomeChar(first_char(SubSeq(input, 1, 4)), 4)
        ELSE NoChar

Spaces(n) == [i \in 1..n |-> SPACE_CHARACTER]

\* variant: U+0700 itself is replaced (>= instead of >)
match_chr_From0700(chr, tab_width) ==
    IF chr = SPACE_CHARACTER THEN << SPACE_CHARACTER >>
    ELSE IF chr = TAB_CHARACTER THEN Spaces(tab_width)
    ELSE IF chr = LINE_FEED_CHARACTER THEN << >>
    ELSE IF \/ chr \in NULL_CHARACTER..UNIT_SEPARATOR_CHARACTER
            \/ chr \in DELETE_CHARACTER..APPLICATION_PROGRAM_COMMAND_CHARACTER
         THEN << NULL_SYMBOL >>
    ELSE IF chr = BOM_CHARACTER THEN << >>
    ELSE IF chr >= 1792 THEN << NULL_SYMBOL >>
    ELSE << chr >>

\* variant: the control range starts one character early, at '~'
match_chr_FromTilde(chr, tab_width) ==
    IF chr = SPACE_CHARACTER THEN << SPACE_CHARACTER >>
    ELSE IF chr = TAB_CHARACTER THEN Spaces(tab_width)
    ELSE IF chr = LINE_FEED_CHARACTER THEN << >>
    ELSE IF \/ chr \in NULL_CHARACTER..UNIT_SEPARATOR_CHARACTER
            \/ chr \in (DELETE_CHARACTER - 1)..APPLICATION_PROGRAM_COMMAND_CHARACTER
         THEN << NULL_SYMBOL >>
    ELSE IF chr = BOM_CHARACTER THEN << >>
    ELSE IF chr > 1792 THEN << NULL_SYMBOL >>
    ELSE << chr >>

\* the match on chr, arm by arm in the order of the source
match_chr(chr, tab_width) ==
    IF chr = SPACE_CHARACTER THEN << SPACE_CHARACTER >>
    ELSE IF chr = TAB_CHARACTER THEN Spaces(tab_width)
    ELSE IF chr = LINE_FEED_CHARACTER THEN << >>
    ELSE IF \/ chr \in NULL_CHARACTER..UNIT_SEPARATOR_CHARACTER
            \/ chr \in DELETE_CHARACTER..APPLICATION_PROGRAM_COMMAND_CHARACTER
         THEN << NULL_SYMBOL >>
    ELSE IF chr = BOM_CHARACTER THEN << >>
    ELSE IF chr > 1792 THEN << NULL_SYMBOL >>
    ELSE << chr >>

\* {:02X}: two upper-case hexadecimal digits
UpperHexDigit(d) == IF d < 10 THEN 48 + d ELSE 55 + d
escape_byte(b) == << 92, 120, UpperHexDigit(b \div 16), UpperHexDigit(b % 16) >>

\* one turn of the while loop at cursor idx: what it pushes to output, and
\* how far it moves idx
turn_output(input, tab_width, idx) ==
    LET parsed == try_parse_utf8_char(SubSeq(input, idx + 1, Len(input)))
    IN  IF parsed.some THEN match_chr(parsed.chr, tab_width)
        ELSE escape_byte(input[idx + 1])

turn_idx(input, idx) ==
    LET parsed == try_parse_utf8_char(SubSeq(input, idx + 1, Len(input)))
    IN  IF parsed.some THEN idx + parsed.skip_ahead ELSE idx + 1

\* while idx < bound { .. }: the loop is run up to the middle of the stretch
\* and then from where that left the cursor, which keeps the evaluation of a
\* 300-byte line shallow; the turns and their order are those of the loop
RECURSIVE while_idx(_, _, _)
while_idx(input, idx, bound) ==
    IF idx >= bound THEN idx
    ELSE IF bound = idx + 1 THEN turn_idx(input, idx)
    ELSE while_idx(input, while_idx(input, idx, (idx + bound) \div 2), bound)

RECURSIVE while_output(_, _, _, _)
while_output(input, tab_width, idx, bound) ==
    IF idx >= bound THEN << >>
    ELSE IF bound = idx + 1 THEN turn_output(input, tab_width, idx)
    ELSE LET middle == (idx + bound) \div 2
         IN  while_output(input, tab_width, idx, middle)
             \o while_output(input, tab_width,
                             while_idx(input, idx, middle), bound)

replace_non_printable(input, tab_width) ==
    while_output(input, tab_width, 0, Len(input))

\* tab, line feed, space, 'A', backslash, '~', DEL, continuation bytes
\* 0x80 0x9F, lead bytes 0xC2 0xEF, and 0xFF
ByteAlphabet == {9, 10, 32, 65, 92, 126, 127, 128, 159, 194, 239, 255}

\* NUL, unit separator, U+00A0, overlong NUL, U+0700, U+0701, U+FFFF, the
\* BOM, U+2400,
\* overlong and smallest three-byte forms, a surrogate, U+D7FF, U+1F44B,
\* beyond U+10FFFF, U+10FFFF, an overlong four-byte form, a truncated
\* character, a BOM between letters, and two two-byte letters
ByteSpecials ==
    { << 0 >>, << 31 >>, << 194, 160 >>, << 192, 128 >>, << 220, 128 >>,
      << 220, 129 >>, << 239, 191, 191 >>,
      << 239, 187, 191 >>, << 226, 144, 128 >>,
      << 224, 128, 128 >>, << 224, 160, 128 >>,
      << 237, 160, 128 >>, << 237, 159, 191 >>,
      << 240, 159, 145, 139 >>, << 244, 144, 128, 128 >>,
      << 244, 143, 191, 191 >>, << 240, 128, 128, 128 >>,
      << 240, 159, 145 >>, << 65, 239, 187, 191, 65 >>,
      << 195, 128, 195, 172 >> }

Buffers == ByteSpecials \cup UNION {[1..n -> ByteAlphabet] : n \in 0..MaxBuf}
\* the tab width of the doc examples and tests, and the one preprocess_line uses
TabWidths == {2, TAB_WIDTH}

\* replace_non_printable on a buffer, and again on the bytes of its result
call_replace_non_printable ==
    /\ pure = NoCall
    /\ \E input \in Buffers, tab_width \in TabWidths :
         LET out == replace_non_printable(input, tab_width)
         IN  pure' = [op |-> "replace_non_printable", input |-> input,
                      tab_width |-> tab_width, out |-> out,
                      again |-> replace_non_printable(Utf8EncodeAll(out),
                                                      tab_width)]
    /\ UNCHANGED PreviewerVars

\* strings.rs: proportion_of_printable_ascii_characters on a buffer; the f32
\* quotient printable / len is kept as the pair << printable, len >>
call_proportion_of_printable_ascii_characters ==
    /\ pure = NoCall
    /\ \E buffer \in Buffers :
         pure' = [op |-> "proportion_of_printable_ascii_characters",
                  buffer |-> buffer,
                  out |-> proportion_of_printable_ascii_characters(buffer)]
    /\ UNCHANGED PreviewerVars

(***************************************************************************)
(* strings.rs: slice_up_to_char_boundary and preprocess_line.              *)
(***************************************************************************)
MaxTail == 2
MAX_LINE_LENGTH == 300

\* &s[..next_char_boundary(s, byte_index)]
slice_up_to_char_boundary(s, byte_index) ==
    str_index(s, 0, next_char_boundary(s, byte_index))

\* str::trim_end_matches(['\r', '\n', '\0']); the three are one-byte characters
RECURSIVE trim_end_matches(_, _)
trim_end_matches(s, pattern) ==
    IF s # << >> /\ s[Len(s)] \in pattern
    THEN trim_end_matches(SubSeq(s, 1, Len(s) - 1), pattern)
    ELSE s

\* variant: the line is cut one byte short of the maximum
preprocess_line_text_OffByOne(line) ==
    trim_end_matches(
        IF Len(line) > MAX_LINE_LENGTH
        THEN slice_up_to_char_boundary(line, MAX_LINE_LENGTH - 1).v
        ELSE line,
        {13, 10, 0})

\* the bytes preprocess_line hands to replace_non_printable
preprocess_line_text(line) ==
    trim_end_matches(
        IF Len(line) > MAX_LINE_LENGTH
        THEN slice_up_to_char_boundary(line, MAX_LINE_LENGTH).v
        ELSE line,
        {13, 10, 0})

preprocess_line(line) ==
    replace_non_printable(preprocess_line_text(line), TAB_WIDTH)

\* lines: a run of 'a' that ends around byte 300, or well past it, followed
\* by a few characters: 'a', line feed, NUL, U+00E9, U+1F44B
LineAlphabet == {97, 10, 0, 233, 128075}
LineTails == UNION {[1..n -> LineAlphabet] : n \in 0..MaxTail}
PadLengths == {0, 297, 299, 300, 398}

call_preprocess_line ==
    /\ pure = NoCall
    /\ \E pad \in PadLengths, tail \in LineTails :
         LET line == Utf8EncodeAll(Rep(97, pad) \o tail)
         IN  pure' = [op |-> "preprocess_line", pad |-> pad, tail |-> tail,
                      line |-> line,
                      text |-> preprocess_line_text(line),
                      out |-> preprocess_line(line)]
    /\ UNCHANGED PreviewerVars

(***************************************************************************)
(* strings.rs: shrink_with_ellipsis.  The returned String is its UTF-8     *)
(* bytes.                                                                  *)
(***************************************************************************)
saturating_sub(a, b) == IF a >= b THEN a - b ELSE 0

\* U+2026, the character between the halves in format!("{first_half}…{second_half}")
ELLIPSIS == 8230

\* variant: the halves are max_length / 2 bytes, without the margin of 2
shrink_with_ellipsis_NoMargin(s, max_length) ==
    IF Len(s) <= max_length THEN Sliced(s)
    ELSE LET half_max_length == max_length \div 2
             first_half  == slice_up_to_char_boundary(s, half_max_length)
             second_half == slice_at_char_boundaries(
                                s, Len(s) - half_max_length, Len(s))
         IN  IF first_half.panic \/ second_half.panic THEN SlicePanic
             ELSE Sliced(first_half.v \o Utf8Encode(ELLIPSIS) \o second_half.v)

shrink_with_ellipsis(s, max_length) ==
    IF Len(s) <= max_length THEN Sliced(s)
    ELSE LET half_max_length == saturating_sub(max_length \div 2, 2)
             first_half  == slice_up_to_char_boundary(s, half_max_length)
             second_half == slice_at_char_boundaries(
                                s, Len(s) - half_max_length, Len(s))
         IN  IF first_half.panic \/ second_half.panic THEN SlicePanic
             ELSE Sliced(first_half.v \o Utf8Encode(ELLIPSIS) \o second_half.v)

\* "Hello, World!", the string of the doc example
HelloWorld == << 72, 101, 108, 108, 111, 44, 32, 87, 111, 114, 108, 100, 33 >>

call_shrink_with_ellipsis ==
    /\ pure = NoCall
    /\ \E chars \in StrChars \cup {HelloWorld} :
         LET s == Utf8EncodeAll(chars)
         IN  \E max_length \in 0..(Len(s) + 1) :
                pure' = [op |-> "shrink_with_ellipsis", chars |-> chars,
                         s |-> s, max_length |-> max_length,
                         out |-> shrink_with_ellipsis(s, max_length)]
    /\ UNCHANGED PreviewerVars

(***************************************************************************)
(* ui/results.rs: build_results_list, the spans of the entry name when the *)
(* entry has name_match_ranges.                                            *)
(***************************************************************************)
MaxNameChars == 2

\* for (start, end) in name_match_ranges: the span before the match and the
\* span of the match; after the loop, the span from last_match_end to the end
RECURSIVE name_spans(_, _, _)
name_spans(name, name_match_ranges, last_match_end) ==
    IF name_match_ranges = << >>
    THEN << str_index(name, next_char_boundary(name, last_match_end), Len(name)) >>
    ELSE LET start == Head(name_match_ranges)[1]
             end   == Head(name_match_ranges)[2]
         IN  << slice_at_char_boundaries(name, last_match_end, start),
                slice_at_char_boundaries(name, start, end) >>
             \o name_spans(name, Tail(name_match_ranges), end)

build_results_list(name, name_match_ranges) ==
    name_spans(name, name_match_ranges, 0)

Names == UNION {[1..n -> StrAlphabet] : n \in 0..MaxNameChars}

\* no, one or two byte ranges, sorted, non-overlapping and within the name
MatchRanges(len) ==
    {<< >>}
    \cup {<< <<s1, e1>> >> : s1 \in 0..len, e1 \in 0..len}
    \cup {<< <<s1, e1>>, <<s2, e2>> >> :
            s1 \in 0..len, e1 \in 0..len, s2 \in 0..len, e2 \in 0..len}

IsSortedRanges(ranges) ==
    /\ \A i \in 1..Len(ranges) : ranges[i][1] <= ranges[i][2]
    /\ \A i \in 1..(Len(ranges) - 1) : ranges[i][2] <= ranges[i + 1][1]

call_build_results_list ==
    /\ pure = NoCall
    /\ \E chars \in Names :
         LET name == Utf8EncodeAll(chars)
         IN  \E ranges \in {r \in MatchRanges(Len(name)) : IsSortedRanges(r)} :
                pure' = [op |-> "build_results_list", chars |-> chars,
                         name |-> name, name_match_ranges |-> ranges,
                         spans |-> build_results_list(name, ranges)]
    /\ UNCHANGED PreviewerVars

ret ==
    /\ pure # NoCall
    /\ pure' = NoCall
    /\ UNCHANGED PreviewerVars

PureNext ==
    \/ call_get_file_type
    \/ call_next_char_boundary
    \/ call_prev_char_boundary
    \/ call_slice_at_char_boundaries
    \/ call_replace_non_printable
    \/ call_proportion_of_printable_ascii_characters
    \/ call_preprocess_line
    \/ call_shrink_with_ellipsis
    \/ call_build_results_list
    \/ ret

PureSpec == Init /\ [][PureNext]_vars

IsCall(op) == pure.op = op

\* the printable ASCII bytes of a sample, counted one by one
PrintableIn(sample) == SelectSeq(sample, LAMBDA b : b \in 32..126)

\* C15: get_file_type returns Image when the sniffed MIME type contains
\* "image", else Text when it contains "text", else Other (never falling
\* back); when nothing is sniffed it returns Text for a known text extension,
\* else Text when the sample of at most 256 bytes has a printable ratio
\* strictly above 0.7, else Unknown (open failure and empty sample included).
C15_FileTypeReference ==
    IsCall("get_file_type") =>
        LET sniffed == pure.sniff.ok /\ pure.sniff.some
            sample  == pure.read.v
            mostly_printable ==
                /\ pure.opened
                /\ pure.read.ok
                /\ Len(sample) > 0
                /\ Len(sample) <= SAMPLE_SIZE
                /\ 10 * Len(PrintableIn(sample)) > 7 * Len(sample)
        IN  pure.out =
                CASE sniffed /\ "image" \in pure.sniff.mime -> Image
                  [] sniffed /\ "image" \notin pure.sniff.mime
                             /\ "text" \in pure.sniff.mime -> Text
                  [] sniffed /\ pure.sniff.mime = {} -> Other
                  [] ~sniffed /\ pure.known_ext -> Text
                  [] ~sniffed /\ ~pure.known_ext /\ mostly_printable -> Text
                  [] OTHER -> Unknown

\* a sample whose printable ratio is exactly 0.7 is classified Unknown
C15_Witness ==
    /\ IsCall("get_file_type")
    /\ ~(pure.sniff.ok /\ pure.sniff.some)
    /\ ~pure.known_ext
    /\ pure.opened /\ pure.read.ok
    /\ Len(pure.read.v) > 0
    /\ 10 * Len(PrintableIn(pure.read.v)) = 7 * Len(pure.read.v)
    /\ pure.out = Unknown

\* the char boundaries of a string, from the widths of its characters
Boundaries(chars) ==
    {Len(Utf8EncodeAll(SubSeq(chars, 1, k))) : k \in 0..Len(chars)}

Largest(S) == CHOOSE x \in S : \A y \in S : y <= x
Smallest(S) == CHOOSE x \in S : \A y \in S : x <= y
BoundaryAtOrBefore(chars, i) == Largest({b \in Boundaries(chars) : b <= i})
BoundaryAtOrAfter(chars, i) == Smallest({b \in Boundaries(chars) : b >= i})

\* C16: slice_at_char_boundaries returns the empty string when start > end,
\* start > len or end > len; otherwise it returns the substring from the char
\* boundary at or before start to the char boundary at or after end, and it
\* never slices out of range or off a char boundary.
C16_SliceAtCharBoundaries ==
    IsCall("slice_at_char_boundaries") =>
        /\ ~pure.out.panic
        /\ pure.out.v =
             IF \/ pure.start > pure.end
                \/ pure.start > Len(pure.s)
                \/ pure.end > Len(pure.s)
             THEN << >>
             ELSE SubSeq(pure.s,
                         BoundaryAtOrBefore(pure.chars, pure.start) + 1,
                         BoundaryAtOrAfter(pure.chars, pure.end))

\* both indexes fall inside characters and the slice is widened on both sides
C16_Witness ==
    /\ IsCall("slice_at_char_boundaries")
    /\ pure.start <= pure.end /\ pure.end <= Len(pure.s)
    /\ pure.start \notin Boundaries(pure.chars)
    /\ pure.end \notin Boundaries(pure.chars)
    /\ ~pure.out.panic
    /\ Len(pure.out.v) > pure.end - pure.start + 2

\* C17: next_char_boundary(s, i) is the smallest char boundary >= i (len(s)
\* when i >= len(s)); prev_char_boundary(s, i), for i <= len(s), is the
\* largest char boundary <= i; an index that is a boundary is returned as is,
\* and both results are always char boundaries within [0, len(s)].
C17_NextPrevBoundary ==
    /\ IsCall("next_char_boundary") =>
         /\ pure.out \in Boundaries(pure.chars)
         /\ pure.out = IF pure.start >= Len(pure.s) THEN Len(pure.s)
                       ELSE BoundaryAtOrAfter(pure.chars, pure.start)
         /\ pure.start \in Boundaries(pure.chars) => pure.out = pure.start
    /\ IsCall("prev_char_boundary") =>
         /\ pure.out \in Boundaries(pure.chars)
         /\ pure.start <= Len(pure.s) =>
              pure.out = BoundaryAtOrBefore(pure.chars, pure.start)
         /\ pure.start \in Boundaries(pure.chars) => pure.out = pure.start

\* next_char_boundary called past the end of a string that ends in a wide
\* character
C17_Witness ==
    /\ IsCall("next_char_boundary")
    /\ pure.start > Len(pure.s)
    /\ Len(pure.s) > Len(pure.chars)
    /\ pure.out = Len(pure.s)

\* C18: prev_char_boundary(s, i) returns 0 when i is out of bounds
\* (i > len(s)).
C18_PrevOutOfBoundsIsZero ==
    (IsCall("prev_char_boundary") /\ pure.start > Len(pure.s)) => pure.out = 0

\* a Unicode scalar value: a code point that is not a surrogate
IsScalarValue(c) == c \in 0..55295 \/ c \in 57344..1114111

\* the code point whose encoding has the bit layout of seq (1 to 4 bytes)
PayloadOf(seq) ==
    CASE Len(seq) = 1 -> seq[1]
      [] Len(seq) = 2 -> (seq[1] % 32) * 64 + (seq[2] % 64)
      [] Len(seq) = 3 -> (seq[1] % 16) * 4096 + (seq[2] % 64) * 64
                         + (seq[3] % 64)
      [] OTHER -> (seq[1] % 8) * 262144 + (seq[2] % 64) * 4096
                  + (seq[3] % 64) * 64 + (seq[4] % 64)

\* seq is the UTF-8 encoding of exactly one scalar value
EncodesOneChar(seq) ==
    /\ Len(seq) \in 1..4
    /\ IsScalarValue(PayloadOf(seq))
    /\ Utf8Encode(PayloadOf(seq)) = seq

HexDigits == << 48, 49, 50, 51, 52, 53, 54, 55, 56, 57, 65, 66, 67, 68, 69, 70 >>

RefReplaceChar(c, tab_width) ==
    CASE c = 32 -> << 32 >>
      [] c = 9 -> [i \in 1..tab_width |-> 32]
      [] c = 10 \/ c = 65279 -> << >>
      [] c \notin {9, 10, 32, 65279}
         /\ (c \in 0..31 \/ c \in 127..159 \/ c > 1792) -> << 9216 >>
      [] OTHER -> << c >>

RECURSIVE RefReplace(_, _)
RefReplace(buffer, tab_width) ==
    IF buffer = << >> THEN << >>
    ELSE LET widths == {n \in 1..4 : /\ n <= Len(buffer)
                                     /\ EncodesOneChar(SubSeq(buffer, 1, n))}
         IN  IF widths # {}
             THEN LET n == Smallest(widths)
                  IN  RefReplaceChar(PayloadOf(SubSeq(buffer, 1, n)), tab_width)
                      \o RefReplace(SubSeq(buffer, n + 1, Len(buffer)), tab_width)
             ELSE << 92, 120, HexDigits[(buffer[1] \div 16) + 1],
                     HexDigits[(buffer[1] % 16) + 1] >>
                  \o RefReplace(Tail(buffer), tab_width)

\* C19: replace_non_printable(buffer, tabWidth) equals the reference: left to
\* right, the shortest valid 1- to 4-byte UTF-8 sequence is decoded; space
\* passes, tab becomes tabWidth spaces, line feed and U+FEFF are dropped,
\* U+0000-U+001F (other than tab and line feed), U+007F-U+009F and every code
\* point above U+0700 become U+2400, every other character passes unchanged;
\* a byte where nothing decodes is emitted as \xHH (upper-case hex) and the
\* cursor advances by one byte.
C19_ReplaceReference ==
    IsCall("replace_non_printable") =>
        pure.out = RefReplace(pure.input, pure.tab_width)

\* a buffer with an undecodable byte, a tab and a replaced control character
C19_Witness ==
    /\ IsCall("replace_non_printable")
    /\ pure.input = << 255, 9, 127 >>
    /\ pure.tab_width = 2
    /\ pure.out = << 92, 120, 70, 70, 32, 32, 9216 >>

IsPrintableAscii(b) == b \in 32..126

\* C20: on a buffer x of printable ASCII bytes (0x20-0x7E) and for every tab
\* width, replace_non_printable(replace_non_printable(x)) equals
\* replace_non_printable(x), which equals x.
C20_IdempotentOnPrintableAscii ==
    (/\ IsCall("replace_non_printable")
     /\ \A i \in 1..Len(pure.input) : IsPrintableAscii(pure.input[i])) =>
        /\ pure.again = pure.out
        /\ pure.out = pure.input

\* a printable buffer that spells an escape: backslash, 'A', '~'
C20_Witness ==
    /\ IsCall("replace_non_printable")
    /\ pure.input = << 92, 65, 126 >>
    /\ pure.tab_width = TAB_WIDTH
    /\ pure.again = pure.input

\* the f32 value of the quotient k / n of two small naturals: k / n for
\* n > 0 (1.0 when k = n, 0.0 when k = 0); 0.0 / 0.0 is NaN, neither of them
RatioIsOne(ratio) == ratio[2] > 0 /\ ratio[1] = ratio[2]
RatioIsZero(ratio) == ratio[2] > 0 /\ ratio[1] = 0

\* C21: for a non-empty buffer, proportion_of_printable_ascii_characters is
\* the number of bytes in [0x20, 0x7F) divided by the number of bytes: 1.0
\* when every byte is printable ASCII, 0.0 when none is, k/n for k out of n.
C21_ProportionIsRatio ==
    (IsCall("proportion_of_printable_ascii_characters") /\ pure.buffer # << >>) =>
        LET k == Len(PrintableIn(pure.buffer))
            n == Len(pure.buffer)
        IN  /\ pure.out = << k, n >>
            /\ k = n => RatioIsOne(pure.out)
            /\ k = 0 => RatioIsZero(pure.out)

\* DEL (0x7F) next to printable bytes: two printable bytes out of three
C21_Witness ==
    /\ IsCall("proportion_of_printable_ascii_characters")
    /\ pure.buffer = << 126, 127, 32 >>
    /\ pure.out = << 2, 3 >>

\* C22: proportion_of_printable_ascii_characters guards against division by
\* zero: for an empty buffer it returns 0.0.
C22_EmptyBufferIsZero ==
    (IsCall("proportion_of_printable_ascii_characters") /\ pure.buffer = << >>) =>
        RatioIsZero(pure.out)

Min(a, b) == IF a <= b THEN a ELSE b
IsPrefix(p, s) == Len(p) <= Len(s) /\ p = SubSeq(s, 1, Len(p))

\* C23: for a line made only of printable ASCII characters (no tab),
\* preprocess_line returns the first min(len(line), 300) characters of the
\* line unchanged; a 400-character line of one repeated printable character
\* yields exactly 300 characters.
C23_PrintableLineTruncated ==
    (/\ IsCall("preprocess_line")
     /\ \A i \in 1..Len(pure.line) : IsPrintableAscii(pure.line[i])) =>
        /\ pure.out = SubSeq(pure.line, 1, Min(Len(pure.line), 300))
        /\ Len(pure.line) = 400 => Len(pure.out) = 300

\* a line of 400 times 'a'
C23_Witness ==
    /\ IsCall("preprocess_line")
    /\ Len(pure.line) = 400
    /\ \A i \in 1..400 : pure.line[i] = 97
    /\ Len(pure.out) = 300

\* the character boundaries of the line of the call: every offset of its
\* run of 'a', and the boundaries of its tail after the run
LineBoundaries ==
    (0..pure.pad) \cup {pure.pad + b : b \in Boundaries(pure.tail)}

\* C26: for every line, also with a multi-byte character straddling byte
\* 300, the text preprocess_line passes to sanitizing is a prefix of the line
\* that ends on a character boundary and is at most 300 bytes long.
C26_SanitizedTextAtMost300Bytes ==
    IsCall("preprocess_line") =>
        /\ IsPrefix(pure.text, pure.line)
        /\ Len(pure.text) \in LineBoundaries
        /\ Len(pure.text) <= 300

\* C24: shrink_with_ellipsis(s, maxLength) returns s unchanged when len(s) <=
\* maxLength; otherwise it returns a prefix of s, exactly one ellipsis
\* character and a suffix of s, in that order, the prefix and the suffix cut
\* at character boundaries around (maxLength/2 - 2) bytes each (saturating
\* at 0).
C24_ShrinkShape ==
    IsCall("shrink_with_ellipsis") =>
        LET len  == Len(pure.s)
            half == IF pure.max_length \div 2 > 2
                    THEN pure.max_length \div 2 - 2 ELSE 0
            cut_first  == BoundaryAtOrAfter(pure.chars, half)
            cut_second == BoundaryAtOrBefore(pure.chars, len - half)
        IN  /\ ~pure.out.panic
            /\ pure.out.v =
                 IF len <= pure.max_length THEN pure.s
                 ELSE SubSeq(pure.s, 1, cut_first)
                      \o << 226, 128, 166 >>
                      \o SubSeq(pure.s, cut_second + 1, len)

\* shrink_with_ellipsis("Hello, World!", 6) is "H…!"
C24_Witness ==
    /\ IsCall("shrink_with_ellipsis")
    /\ pure.chars = HelloWorld
    /\ pure.max_length = 6
    /\ pure.out = Sliced(<< 72, 226, 128, 166, 33 >>)

\* C25: shrink_with_ellipsis shrinks a string to a maximum length: for every
\* string s and every maxLength, the byte length of the result is at most
\* maxLength.
C25_ShrunkWithinMaxLength ==
    IsCall("shrink_with_ellipsis") => Len(pure.out.v) <= pure.max_length

\* C27: whenever the cache holds Loading for an identifier, a background
\* task for that identifier has been started and has not yet written its
\* result, or the call that inserted Loading is on its way to starting it
\* (no orphan Loading), also when seeking the opened file to its start fails.
C27_NoOrphanLoading ==
    \A e \in Entries :
        cache[e] = Loading =>
            \/ TasksOf(e) # {}
            \/ \E c \in Callers : arg[c] = e /\ pc[c] \in {"seek", "spawn"}

\* C28: a preview() call for entry e and the background task it starts write
\* the cache only under e's identifier; the cached values of all other
\* identifiers are unchanged by them, under any interleaving of calls and
\* tasks for different identifiers.
C28_WritesOnlyOwnKey ==
    [][\A e \in Entries :
        cache'[e] # cache[e] =>
            \/ \E c \in Callers :
                /\ arg[c] = e
                /\ pc[c] = "cache_held"
                /\ pc'[c] # "cache_held"
                /\ cache'[e] = preview[c]
            \/ \E t \in TasksOf(e) :
                /\ t.phase = "store_held"
                /\ t \notin tasks'
                /\ cache'[e] = TaskResult(t.read, t.hl)]_vars

\* two identifiers at once: one holds a terminal value while the task of
\* the other is still running on its Loading placeholder
C28_Witness ==
    \E e1, e2 \in Entries :
        /\ e1 # e2
        /\ cache[e1] = TooLarge
        /\ cache[e2] = Loading
        /\ \E t \in TasksOf(e2) : t.phase = "store_held"

\* C29: when the file-size query fails, preview() never reports TooLarge: it
\* goes on to classification; and a path that can be neither sniffed nor
\* opened and has no known text extension ends with NotSupported cached and
\* returned in the same call, with no Loading and no background task.
C29_SizeErrorThenNotSupported ==
    [][\A c \in Callers :
        /\ (pc[c] = "size" /\ pc'[c] # "size" /\ ~seen'[c].size.ok) =>
              /\ pc'[c] = "classify"
              /\ preview'[c] # TooLarge
        /\ (seen'[c].sample_err /\ ~seen'[c].size.ok) =>
              /\ seen'[c].ftype = Unknown
              /\ preview'[c] = NotSupported
              /\ pc'[c] \in {"cache_lock", "cache_held", "returned"}
              /\ pc'[c] = "returned" => cache'[arg[c]] = NotSupported
              /\ cache'[arg[c]] # Loading
              /\ {t \in tasks' : t.entry = arg[c]} = TasksOf(arg[c])
              /\ started'[arg[c]] = started[arg[c]]]_vars

\* the size query and the open of the sample both failed, and the call has
\* returned NotSupported
C29_Witness ==
    \E c \in Callers :
        /\ pc[c] = "returned"
        /\ seen[c].size = Err
        /\ seen[c].sample_err
        /\ preview[c] = NotSupported
        /\ cache[arg[c]] = NotSupported
        /\ started[arg[c]] = 0

RECURSIVE Concat(_)
Concat(spans) ==
    IF spans = << >> THEN << >> ELSE Head(spans).v \o Concat(Tail(spans))

\* C30: in build_results_list, for an entry whose name_match_ranges are
\* sorted, non-overlapping and within the name's byte length, the name spans
\* produced (unmatched gap, matched range, ..., trailing remainder)
\* concatenate to exactly the entry name, with no character dropped or
\* repeated, also when a range start or end falls inside a multi-byte
\* character.
C30_NameSpansConcatenateToName ==
    IsCall("build_results_list") =>
        /\ \A i \in 1..Len(pure.spans) : ~pure.spans[i].panic
        /\ Concat(pure.spans) = pure.name

====
